---- MODULE Spec2Model ----
(***************************************************************************)
(* Model of the FourCC value type of src/src/lib.rs.                       *)
(*                                                                         *)
(* A FourCC is a 4-byte array (TypeId).  The program has no mutable state  *)
(* of its own; the state machine below is a client that binds one FourCC   *)
(* value `f` through one of the three From conversions and then applies    *)
(* the type's operations to it, recording the operation, its operand and   *)
(* its result.  A second specification (SpecMap) drives a HashMap keyed by *)
(* FourCC, as the test hash_map_key does.                                  *)
(*                                                                         *)
(* Representation of Rust values:                                          *)
(*   u8        a number in 0..255                                          *)
(*   [u8;4]    a sequence of 4 bytes                                       *)
(*   &str      the sequence of its UTF-8 encoded bytes (what a str is)     *)
(*   char      its code point                                              *)
(*   u32       a record [hi, lo] of two 16-bit limbs, value hi*2^16 + lo:  *)
(*             TLC's integers are 32-bit signed, so the upper half of the  *)
(*             u32 range cannot be a single TLC integer.                   *)
(***************************************************************************)
EXTENDS Integers, Sequences, FiniteSets, TLC

VARIABLES pc, f, src, op, arg, res, map

vars == <<pc, f, src, op, arg, res, map>>

---------------------------------------------------------------------------
(* Bounds of the model. *)

\* Longest input string, in characters.
MaxStrLen == 4

\* Most entries the HashMap of SpecMap holds.
MaxMapLen == 2

\* Range of the model's hasher (the number of distinct hash values).
HashRange == 3

---------------------------------------------------------------------------
(* Values that are not a FourCC / not a result. *)

\* No FourCC is bound (before the first construction, after a panic).
NoValue == <<>>

\* The outcome of an operation: it panicked, or it returned val.
Panicked == [tag |-> "panic"]

Ok(v) == [tag |-> "ok", val |-> v]

\* The operand of an operation that takes none, and Option::None.
NoArg == [kind |-> "none"]

None == [tag |-> "none"]

Some(v) == [tag |-> "some", val |-> v]

\* std::cmp::Ordering
Less == "Less"

Equal == "Equal"

Greater == "Greater"

---------------------------------------------------------------------------
(* Input sets. *)

\* Sample bytes: '!' and '~' (the ends of the ASCII graphic range) and 0x80
\* (the first byte that is not ASCII, negative as a signed byte).
ByteSamples == {33, 126, 128}

\* The arrays of the tests: b"RGBA", b"ARGB", [0, 1, 2, 3].
TestTypeIds == { <<82, 71, 66, 65>>, <<65, 82, 71, 66>>, <<0, 1, 2, 3>> }

\* Arrays with one byte just outside the graphic range (space, DEL) at
\* each end, and the all-0xFF array.
EdgeTypeIds == { <<32, 33, 33, 33>>, <<33, 33, 33, 32>>, <<127, 126, 126, 126>>,
                 <<126, 126, 126, 127>>, <<255, 255, 255, 255>> }

TypeIds == [1..4 -> ByteSamples] \cup TestTypeIds \cup EdgeTypeIds

\* Sample characters: '!' (1 byte in UTF-8) and U+20AC (3 bytes).
CharSamples == {33, 8364}

CharSeqs == UNION { [1..n -> CharSamples] : n \in 0..MaxStrLen }

\* 16-bit limbs of the sample u32 values: 0x0000, 0x2121 ("!!"),
\* 0x217E ("!~"), 0x7E21 ("~!"), 0x7FFF, 0x8000, 0xFFFF.
LimbSamples == {0, 8481, 8574, 32289, 32767, 32768, 65535}

\* The u32 whose value is n, for n below 2^31.
U32Of(n) == [hi |-> n \div 65536, lo |-> n % 65536]

\* The u32 literals of the tests: "RGBA" and "ARGB" read big-endian.
TestU32s == { U32Of(1380401729), U32Of(1095911234) }

U32Samples == { [hi |-> h, lo |-> l] : h, l \in LimbSamples } \cup TestU32s

---------------------------------------------------------------------------
(* Library primitives the source calls. *)

\* char::encode_utf8: the UTF-8 bytes of the character with code point c.
encode_utf8(c) ==
    IF c < 128 THEN <<c>>
    ELSE IF c < 2048 THEN <<192 + (c \div 64), 128 + (c % 64)>>
    ELSE IF c < 65536 THEN
        <<224 + (c \div 4096), 128 + ((c \div 64) % 64), 128 + (c % 64)>>
    ELSE <<240 + (c \div 262144), 128 + ((c \div 4096) % 64),
           128 + ((c \div 64) % 64), 128 + (c % 64)>>

\* The str holding the characters cs: the concatenation of their encodings.
RECURSIVE StrOfChars(_)
StrOfChars(cs) ==
    IF cs = <<>> THEN <<>>
    ELSE encode_utf8(Head(cs)) \o StrOfChars(Tail(cs))

\* Width of the UTF-8 sequence that starts with lead byte b.
utf8_char_width(b) ==
    IF b < 128 THEN 1 ELSE IF b < 224 THEN 2 ELSE IF b < 240 THEN 3 ELSE 4

\* The code point encoded by the UTF-8 sequence bs (one character).
decode_utf8(bs) ==
    CASE Len(bs) = 1 -> bs[1]
      [] Len(bs) = 2 -> (bs[1] - 192) * 64 + (bs[2] - 128)
      [] Len(bs) = 3 -> (bs[1] - 224) * 4096 + (bs[2] - 128) * 64 + (bs[3] - 128)
      [] OTHER -> (bs[1] - 240) * 262144 + (bs[2] - 128) * 4096
                  + (bs[3] - 128) * 64 + (bs[4] - 128)

\* str::chars: the characters of the str s, in order.
RECURSIVE chars(_)
chars(s) ==
    IF s = <<>> THEN <<>>
    ELSE LET w == utf8_char_width(s[1])
         IN  <<decode_utf8(SubSeq(s, 1, w))>> \o chars(SubSeq(s, w + 1, Len(s)))

\* The input strings: every str of at most MaxStrLen sample characters,
\* and the strings of the tests ("RGBA", "ARGB", "\0\x01\x02\x03").
Strs == { StrOfChars(cs) : cs \in CharSeqs } \cup TestTypeIds

\* Fault: the bytes of num least significant first (u32::to_le_bytes).
to_le_bytes(num) ==
    << num.lo % 256, num.lo \div 256, num.hi % 256, num.hi \div 256 >>

\* u32::to_be_bytes: most significant byte first.
to_be_bytes(num) ==
    << num.hi \div 256, num.hi % 256, num.lo \div 256, num.lo % 256 >>

\* u32::from_be_bytes: the first byte is the most significant.
from_be_bytes(bytes) ==
    [hi |-> bytes[1] * 256 + bytes[2], lo |-> bytes[3] * 256 + bytes[4]]

\* Fault: the space counted as graphic (the printable range U+0020 ..= U+007E).
is_ascii_printable(b) == 32 <= b /\ b <= 126

\* u8::is_ascii_graphic: U+0021 '!' ..= U+007E '~'.
is_ascii_graphic(b) == 33 <= b /\ b <= 126

---------------------------------------------------------------------------
(* Constructors: From<&str>, From<&TypeId>, From<u32>. *)

\* Fault: a short str padded with zero bytes instead of a panic.
from_str_padded(s) ==
    IF Len(s) < 4
    THEN Ok(s \o [i \in 1..(4 - Len(s)) |-> 0])
    ELSE Ok(SubSeq(s, 1, 4))

\* Fault: the first 4 decoded characters taken instead of the first 4 bytes.
from_str_chars(s) ==
    IF Len(chars(s)) < 4 THEN Panicked
    ELSE Ok([i \in 1..4 |-> chars(s)[i] % 256])

\* s.as_bytes()[..4].try_into().unwrap(): the slice index panics when the
\* str has fewer than 4 bytes; otherwise the first 4 bytes are stored.
from_str(s) == IF Len(s) < 4 THEN Panicked ELSE Ok(SubSeq(s, 1, 4))

\* Self(*bytes)
from_bytes(bytes) == bytes

\* Self(u32::to_be_bytes(num))
from_u32(num) == to_be_bytes(num)

---------------------------------------------------------------------------
(* Conversions: From<FourCC> for TypeId, From<FourCC> for u32. *)

\* fourcc.0
into_bytes(fourcc) == fourcc

\* u32::from_be_bytes(fourcc.0)
into_u32(fourcc) == from_be_bytes(fourcc)

---------------------------------------------------------------------------
(* is_valid, Display, Debug. *)

\* self.0.iter().all(|&b| b.is_ascii_graphic())
is_valid(self) == \A i \in 1..4 : is_ascii_graphic(self[i])

\* Fault: a byte that is not ASCII shown as U+FFFD (lossy UTF-8 decoding).
AsChar_lossy(b) == IF b < 128 THEN b ELSE 65533

\* `b as char`: the character whose code point is the byte's value.
AsChar(b) == b

\* write!(f, "{}{}{}{}", self.0[0] as char, ... self.0[3] as char):
\* the four characters are written to the output str, UTF-8 encoded.
fmt_Display(self) ==
    encode_utf8(AsChar(self[1])) \o encode_utf8(AsChar(self[2]))
        \o encode_utf8(AsChar(self[3])) \o encode_utf8(AsChar(self[4]))

\* write!(f, "'{}{}{}{}'", ...): the same between two single quotes (0x27).
fmt_Debug(self) ==
    <<39>> \o encode_utf8(AsChar(self[1])) \o encode_utf8(AsChar(self[2]))
        \o encode_utf8(AsChar(self[3])) \o encode_utf8(AsChar(self[4])) \o <<39>>

---------------------------------------------------------------------------
(* Equality and ordering. *)

\* Fault: the bytes compared as signed (i8) values.
i8_cmp(a, b) ==
    LET sa == IF a < 128 THEN a ELSE a - 256
        sb == IF b < 128 THEN b ELSE b - 256
    IN  IF sa < sb THEN Less ELSE IF sa = sb THEN Equal ELSE Greater

\* Ord for u8: unsigned comparison.
u8_cmp(a, b) == IF a < b THEN Less ELSE IF a = b THEN Equal ELSE Greater

\* PartialEq for slices and arrays: same length and equal element by element.
slice_eq(a, b) == Len(a) = Len(b) /\ \A i \in 1..Len(a) : a[i] = b[i]

\* PartialOrd for slices and arrays: lexicographic; the first pair of
\* elements that differ decides, then the lengths.
RECURSIVE slice_cmp_from(_, _, _)
slice_cmp_from(a, b, i) ==
    IF i > Len(a) \/ i > Len(b)
    THEN (IF Len(a) < Len(b) THEN Less
          ELSE IF Len(a) = Len(b) THEN Equal ELSE Greater)
    ELSE IF u8_cmp(a[i], b[i]) # Equal THEN u8_cmp(a[i], b[i])
    ELSE slice_cmp_from(a, b, i + 1)

slice_partial_cmp(a, b) == slice_cmp_from(a, b, 1)

\* Fault: equality that looks at the first 3 bytes only.
FourCC_eq_prefix(self, other) == \A i \in 1..3 : self[i] = other[i]

\* derive(PartialEq) for FourCC(TypeId): self.0 == other.0
FourCC_eq(self, other) == slice_eq(self, other)

\* Fault: an ordering that never answers Equal.
FourCC_partial_cmp_noeq(self, other) ==
    IF slice_partial_cmp(self, other) = Less THEN Less ELSE Greater

\* derive(PartialOrd) for FourCC(TypeId): self.0.partial_cmp(&other.0)
FourCC_partial_cmp(self, other) == slice_partial_cmp(self, other)

\* PartialEq<&TypeId>: self.0.as_ref() == *other
eq_TypeId(self, other) == Ok(slice_eq(self, other))

\* PartialEq<&str>: self == &FourCC::from(*other); a panic of the
\* conversion unwinds through the comparison.
eq_str(self, other) ==
    LET conv == from_str(other)
    IN  IF conv.tag = "panic" THEN Panicked ELSE Ok(FourCC_eq(self, conv.val))

\* PartialEq<u32>: self == &FourCC::from(*other)
eq_u32(self, other) == Ok(FourCC_eq(self, from_u32(other)))

\* Fault: the operands of the comparison swapped.
partial_cmp_TypeId_swapped(self, other) == Ok(slice_partial_cmp(other, self))

\* PartialOrd<&TypeId>: self.0.partial_cmp(*other)
partial_cmp_TypeId(self, other) == Ok(slice_partial_cmp(self, other))

\* PartialOrd<&str>: self.partial_cmp(&FourCC::from(*other))
partial_cmp_str(self, other) ==
    LET conv == from_str(other)
    IN  IF conv.tag = "panic" THEN Panicked
        ELSE Ok(FourCC_partial_cmp(self, conv.val))

\* PartialOrd<u32>: self.partial_cmp(&FourCC::from(*other))
partial_cmp_u32(self, other) == Ok(FourCC_partial_cmp(self, from_u32(other)))

\* The types a FourCC is compared with besides itself.
ForeignTypes == {"&TypeId", "&str", "u32"}

\* The <<Self, Rhs>> pairs for which PartialEq<Rhs> for Self is implemented:
\* `a == b` compiles only for a pair in this set.
PartialEqImpls == { <<"FourCC", "FourCC">> } \cup { <<"FourCC", T>> : T \in ForeignTypes }

\* The <<Self, Rhs>> pairs for which PartialOrd<Rhs> for Self is implemented.
PartialOrdImpls == { <<"FourCC", "FourCC">> } \cup { <<"FourCC", T>> : T \in ForeignTypes }

\* The operators <, <=, >, >= as PartialOrd derives them from partial_cmp.
lt(c) == c = Less

le(c) == c \in {Less, Equal}

gt(c) == c = Greater

ge(c) == c \in {Greater, Equal}

---------------------------------------------------------------------------
(* The client.  A FourCC is immutable once constructed and every operation *)
(* takes it by value or by shared reference, so a run of the client binds *)
(* one value (pc "start" -> "bound"), applies one operation to it         *)
(* ("bound" -> "applied") and drops it (-> "start").                      *)

Init ==
    /\ pc = "start"
    /\ f = NoValue
    /\ src = NoArg
    /\ op = "init"
    /\ arg = NoArg
    /\ res = None
    /\ map = {}

\* An operation `o` with operand `a` ended with outcome `r`; a panic
\* unwinds and drops the bound value.
Applied(o, a, r) ==
    /\ pc = "bound"
    /\ pc' = "applied"
    /\ op' = o
    /\ arg' = a
    /\ res' = r
    /\ IF r.tag = "panic"
       THEN f' = NoValue /\ src' = NoArg
       ELSE UNCHANGED <<f, src>>
    /\ UNCHANGED map

\* A construction from input `a` ended with outcome `r`.
Bound(o, a, r) ==
    /\ pc' = IF r.tag = "panic" THEN "applied" ELSE "bound"
    /\ op' = o
    /\ arg' = a
    /\ res' = r
    /\ IF r.tag = "panic"
       THEN f' = NoValue /\ src' = NoArg
       ELSE f' = r.val /\ src' = a
    /\ UNCHANGED map

\* let f = FourCC::from(s)
FromStr ==
    /\ pc = "start"
    /\ \E s \in Strs : Bound("from_str", [kind |-> "str", val |-> s], from_str(s))

\* let f = FourCC::from(bytes)
FromBytes ==
    /\ pc = "start"
    /\ \E b \in TypeIds :
        Bound("from_bytes", [kind |-> "bytes", val |-> b], Ok(from_bytes(b)))

\* let f = FourCC::from(num)
FromU32 ==
    /\ pc = "start"
    /\ \E n \in U32Samples :
        Bound("from_u32", [kind |-> "u32", val |-> n], Ok(from_u32(n)))

\* <TypeId>::from(f)
IntoBytes ==
    /\ Applied("into_bytes", NoArg, Ok(into_bytes(f)))

\* u32::from(f)
IntoU32 ==
    /\ Applied("into_u32", NoArg, Ok(into_u32(f)))

\* FourCC::from(u32::from(f)): the value read back from its integer view.
FromU32OfInto ==
    /\ pc = "applied"
    /\ op = "into_u32"
    /\ pc' = "applied"
    /\ op' = "from_u32_of_into"
    /\ arg' = [kind |-> "u32", val |-> res.val]
    /\ res' = Ok(from_u32(res.val))
    /\ UNCHANGED <<f, src, map>>

\* f.is_valid()
IsValid ==
    /\ Applied("is_valid", NoArg, Ok(is_valid(f)))

\* format!("{}", f)
Display ==
    /\ Applied("display", NoArg, Ok(fmt_Display(f)))

\* format!("{:?}", f)
Debug ==
    /\ Applied("debug", NoArg, Ok(fmt_Debug(f)))

\* f == g
EqFourCC ==
    /\ <<"FourCC", "FourCC">> \in PartialEqImpls
    /\ \E g \in TypeIds :
        Applied("eq_fourcc", [kind |-> "fourcc", val |-> g], Ok(FourCC_eq(f, g)))

\* f == bytes
EqTypeId ==
    /\ <<"FourCC", "&TypeId">> \in PartialEqImpls
    /\ \E b \in TypeIds :
        Applied("eq_bytes", [kind |-> "bytes", val |-> b], eq_TypeId(f, b))

\* f == s
EqStr ==
    /\ <<"FourCC", "&str">> \in PartialEqImpls
    /\ \E s \in Strs :
        Applied("eq_str", [kind |-> "str", val |-> s], eq_str(f, s))

\* f == num
EqU32 ==
    /\ <<"FourCC", "u32">> \in PartialEqImpls
    /\ \E n \in U32Samples :
        Applied("eq_u32", [kind |-> "u32", val |-> n], eq_u32(f, n))

\* f.partial_cmp(&g)
CmpFourCC ==
    /\ <<"FourCC", "FourCC">> \in PartialOrdImpls
    /\ \E g \in TypeIds :
        Applied("cmp_fourcc", [kind |-> "fourcc", val |-> g],
                Ok(FourCC_partial_cmp(f, g)))

\* f.partial_cmp(&bytes)
CmpTypeId ==
    /\ <<"FourCC", "&TypeId">> \in PartialOrdImpls
    /\ \E b \in TypeIds :
        Applied("cmp_bytes", [kind |-> "bytes", val |-> b],
                partial_cmp_TypeId(f, b))

\* f.partial_cmp(&s)
CmpStr ==
    /\ <<"FourCC", "&str">> \in PartialOrdImpls
    /\ \E s \in Strs :
        Applied("cmp_str", [kind |-> "str", val |-> s], partial_cmp_str(f, s))

\* f.partial_cmp(&num)
CmpU32 ==
    /\ <<"FourCC", "u32">> \in PartialOrdImpls
    /\ \E n \in U32Samples :
        Applied("cmp_u32", [kind |-> "u32", val |-> n], partial_cmp_u32(f, n))

\* The value goes out of scope; the next run starts.
Drop ==
    /\ pc = "applied"
    /\ pc' = "start"
    /\ f' = NoValue
    /\ src' = NoArg
    /\ op' = "init"
    /\ arg' = NoArg
    /\ res' = None
    /\ UNCHANGED map

Next ==
    \/ FromStr
    \/ FromBytes
    \/ FromU32
    \/ IntoBytes
    \/ IntoU32
    \/ FromU32OfInto
    \/ IsValid
    \/ Display
    \/ Debug
    \/ EqFourCC
    \/ EqTypeId
    \/ EqStr
    \/ EqU32
    \/ CmpFourCC
    \/ CmpTypeId
    \/ CmpStr
    \/ CmpU32
    \/ Drop

Spec == Init /\ [][Next]_vars

---------------------------------------------------------------------------
(* A HashMap<FourCC, &str> (test hash_map_key).  The map is a set of       *)
(* entries, each kept with the hash of its key; a lookup finds the entry   *)
(* whose stored hash equals the hash of the probe and whose key is == to   *)
(* the probe.                                                              *)

\* The keys of the map: the tags of the tests, the edge arrays, "!!!!" and
\* "!!!~".
KeyTags ==
    TestTypeIds \cup EdgeTypeIds \cup { <<33, 33, 33, 33>>, <<33, 33, 33, 126>> }

\* The inputs of each kind that construct one of these keys.
KeyStrs == { s \in Strs : from_str(s).tag = "ok" /\ from_str(s).val \in KeyTags }

KeyTypeIds == { b \in TypeIds : from_bytes(b) \in KeyTags }

KeyU32s == { n \in U32Samples : from_u32(n) \in KeyTags }

\* derive(Hash) for FourCC(TypeId): the array is fed to the hasher as a
\* slice, its length first and then its elements.
FourCC_hash(self) == <<Len(self)>> \o self

\* Hasher::finish: a fixed function of what was fed, onto 0..HashRange-1.
RECURSIVE SumOf(_)
SumOf(s) == IF s = <<>> THEN 0 ELSE Head(s) + SumOf(Tail(s))

finish(fed) == SumOf(fed) % HashRange

\* The entries of m that a probe with key k finds.
Found(m, k) ==
    { e \in m : e.hash = finish(FourCC_hash(k)) /\ FourCC_eq(e.key, k) }

\* HashMap::get
HashMap_get(m, k) ==
    IF Found(m, k) = {} THEN None
    ELSE Some((CHOOSE e \in Found(m, k) : TRUE).val)

\* HashMap::insert: the map afterwards (the value of an entry found is
\* replaced, its key kept; otherwise a new entry is added).
HashMap_insert(m, k, v) ==
    IF Found(m, k) = {}
    THEN m \cup { [hash |-> finish(FourCC_hash(k)), key |-> k, val |-> v] }
    ELSE { IF e \in Found(m, k) THEN [e EXCEPT !.val = v] ELSE e : e \in m }

\* map.insert(k, v) with k = FourCC::from(a.val): the value inserted names
\* the kind of input the key was constructed from.
Insert(a, k) ==
    /\ Found(map, k) # {} \/ Cardinality(map) < MaxMapLen
    /\ map' = HashMap_insert(map, k, a.kind)
    /\ op' = "insert"
    /\ arg' = a
    /\ res' = HashMap_get(map, k)
    /\ UNCHANGED <<pc, f, src>>

\* map.get(&k) with k = FourCC::from(a.val)
Get(a, k) ==
    /\ op' = "get"
    /\ arg' = a
    /\ res' = HashMap_get(map, k)
    /\ UNCHANGED <<pc, f, src, map>>

InsertStr ==
    \E s \in KeyStrs : Insert([kind |-> "str", val |-> s], from_str(s).val)

InsertBytes ==
    \E b \in KeyTypeIds : Insert([kind |-> "bytes", val |-> b], from_bytes(b))

InsertU32 ==
    \E n \in KeyU32s : Insert([kind |-> "u32", val |-> n], from_u32(n))

GetStr ==
    \E s \in KeyStrs : Get([kind |-> "str", val |-> s], from_str(s).val)

GetBytes ==
    \E b \in KeyTypeIds : Get([kind |-> "bytes", val |-> b], from_bytes(b))

GetU32 ==
    \E n \in KeyU32s : Get([kind |-> "u32", val |-> n], from_u32(n))

NextMap ==
    \/ InsertStr
    \/ InsertBytes
    \/ InsertU32
    \/ GetStr
    \/ GetBytes
    \/ GetU32

SpecMap == Init /\ [][NextMap]_vars

---------------------------------------------------------------------------
(* Notions the properties are stated with. *)

\* Numeric order of two u32 values.
U32Less(a, b) == a.hi < b.hi \/ (a.hi = b.hi /\ a.lo < b.lo)

\* Lexicographic order of two 4-byte arrays, bytes compared unsigned.
LexLess(a, b) ==
    \E i \in 1..4 : a[i] < b[i] /\ \A j \in 1..(i - 1) : a[j] = b[j]

LexOrdering(a, b) ==
    IF LexLess(a, b) THEN Less ELSE IF LexLess(b, a) THEN Greater ELSE Equal

\* The type of an operand of the given kind.
TypeOfKind(k) ==
    CASE k = "bytes" -> "&TypeId"
      [] k = "str" -> "&str"
      [] k = "u32" -> "u32"
      [] k = "fourcc" -> "FourCC"

\* The FourCC the construction rules give for the (valid) operand a.
Constructed(a) ==
    CASE a.kind = "bytes" -> from_bytes(a.val)
      [] a.kind = "str" -> from_str(a.val).val
      [] a.kind = "u32" -> from_u32(a.val)
      [] a.kind = "fourcc" -> a.val

EqOps == {"eq_fourcc", "eq_bytes", "eq_str", "eq_u32"}

CmpOps == {"cmp_fourcc", "cmp_bytes", "cmp_str", "cmp_u32"}

ForeignEqOps == EqOps \ {"eq_fourcc"}

ForeignCmpOps == CmpOps \ {"cmp_fourcc"}

---------------------------------------------------------------------------
(* Properties. *)

\* C1: the integer view and the byte view are mutually inverse.  A value
\* constructed from the u32 n converts back to n, and a value read back
\* from its own integer view has exactly the bytes it had (for a value
\* constructed from the array b: the bytes b).
RoundTrip_C1 ==
    /\ (op = "into_u32" /\ src.kind = "u32") => res.val = src.val
    /\ op = "from_u32_of_into" =>
        /\ res.val = f
        /\ src.kind = "bytes" => res.val = src.val

\* C1 witness: the u32 0x8000217E (top bit set, four different bytes) has
\* been converted to a FourCC and back.
RoundTrip_C1_Witness ==
    /\ op = "into_u32"
    /\ src.kind = "u32"
    /\ src.val = [hi |-> 32768, lo |-> 8574]
    /\ res.val = [hi |-> 32768, lo |-> 8574]

\* C2: construction from a str panics, and binds no value, exactly when the
\* str has fewer than 4 bytes; with 4 bytes or more it returns a FourCC.
FromStrFails_C2 ==
    op = "from_str" =>
        /\ res.tag = "panic" <=> Len(arg.val) < 4
        /\ res.tag = "panic" => (pc = "applied" /\ f = NoValue)
        /\ res.tag # "panic" => (pc = "bound" /\ res.tag = "ok" /\ f = res.val
                                   /\ Len(f) = 4)

\* C2 witness: a str of 3 bytes has been refused.
FromStrFails_C2_Witness ==
    /\ op = "from_str"
    /\ Len(arg.val) = 3
    /\ res.tag = "panic"
    /\ f = NoValue

\* C3 (as claimed): no operation other than the construction from a str
\* panics; in particular == and partial_cmp against a str return a result
\* for every str.
OnlyFromStrPanics_C3 ==
    res.tag = "panic" => op = "from_str"

\* C4: a comparison of f with a foreign value x (an array, a str of at
\* least 4 bytes, a u32) has the result of the lexicographic unsigned
\* comparison of the bytes of f with those of the FourCC constructed from
\* x; so a comparison with a str depends on its first 4 bytes only.
ForeignComparison_C4 ==
    /\ (op \in ForeignEqOps /\ (arg.kind = "str" => Len(arg.val) >= 4)) =>
        /\ res.tag = "ok"
        /\ res.val = (LexOrdering(f, Constructed(arg)) = Equal)
    /\ (op \in ForeignCmpOps /\ (arg.kind = "str" => Len(arg.val) >= 4)) =>
        /\ res.tag = "ok"
        /\ res.val = LexOrdering(f, Constructed(arg))
        /\ lt(res.val) <=> LexLess(f, Constructed(arg))
        /\ le(res.val) <=> (LexLess(f, Constructed(arg)) \/ f = Constructed(arg))
        /\ gt(res.val) <=> LexLess(Constructed(arg), f)
        /\ ge(res.val) <=> (LexLess(Constructed(arg), f) \/ f = Constructed(arg))
    /\ (op \in {"eq_str", "cmp_str"} /\ Len(arg.val) >= 4) =>
        res.val = (IF op = "eq_str"
                   THEN f = SubSeq(arg.val, 1, 4)
                   ELSE LexOrdering(f, SubSeq(arg.val, 1, 4)))

\* C4 witness: a value constructed from an array compares Less than an
\* array that differs from it in the last byte only, the byte 0x80 being
\* the greater one.
ForeignComparison_C4_Witness ==
    /\ op = "cmp_bytes"
    /\ f = <<33, 33, 33, 126>>
    /\ arg.val = <<33, 33, 33, 128>>
    /\ res.val = Less

\* C5: is_valid returns true exactly when each of the 4 bytes is in
\* 0x21..0x7E.
IsValid_C5 ==
    op = "is_valid" =>
        /\ res.tag = "ok"
        /\ res.val = (\A i \in 1..4 : f[i] \in 33..126)
        /\ (\E i \in 1..4 : f[i] \in (0..32) \cup {127} \cup (128..255)) => ~res.val

\* C5 witness: three graphic bytes followed by a space are not valid.
IsValid_C5_Witness ==
    /\ op = "is_valid"
    /\ f = <<33, 33, 33, 32>>
    /\ res.val = FALSE

\* C6 (as claimed): comparison is symmetric in the operand positions; for
\* two FourCC values f == g iff g == f, f < g iff g > f, f <= g iff g >= f,
\* and for each foreign type the comparison is also defined with the
\* foreign value as the left operand.
Symmetric_C6_AsClaimed ==
    /\ op = "eq_fourcc" => res.val = FourCC_eq(arg.val, f)
    /\ op = "cmp_fourcc" =>
        /\ lt(res.val) <=> gt(FourCC_partial_cmp(arg.val, f))
        /\ le(res.val) <=> ge(FourCC_partial_cmp(arg.val, f))
    /\ op \in ForeignEqOps => <<TypeOfKind(arg.kind), "FourCC">> \in PartialEqImpls
    /\ op \in ForeignCmpOps => <<TypeOfKind(arg.kind), "FourCC">> \in PartialOrdImpls

\* C6 (amended): for two FourCC values f == g iff g == f, f < g iff g > f,
\* f <= g iff g >= f; for each foreign type the comparison is defined with
\* the FourCC as the left operand and is not defined with the foreign value
\* as the left operand.
Symmetric_C6 ==
    /\ op = "eq_fourcc" => res.val = FourCC_eq(arg.val, f)
    /\ op = "cmp_fourcc" =>
        /\ lt(res.val) <=> gt(FourCC_partial_cmp(arg.val, f))
        /\ le(res.val) <=> ge(FourCC_partial_cmp(arg.val, f))
    /\ op \in ForeignEqOps =>
        /\ <<"FourCC", TypeOfKind(arg.kind)>> \in PartialEqImpls
        /\ <<TypeOfKind(arg.kind), "FourCC">> \notin PartialEqImpls
    /\ op \in ForeignCmpOps =>
        /\ <<"FourCC", TypeOfKind(arg.kind)>> \in PartialOrdImpls
        /\ <<TypeOfKind(arg.kind), "FourCC">> \notin PartialOrdImpls

\* C6 witness: f has been compared with an equal FourCC g.
Symmetric_C6_Witness ==
    /\ op = "cmp_fourcc"
    /\ f = <<82, 71, 66, 65>>
    /\ arg.val = f
    /\ res.val = Equal

\* C7: a lookup under a key finds a value exactly when an entry with the
\* same 4 bytes is in the map, whatever kind of input either key was
\* constructed from, and returns that entry's value; an insert leaves the
\* value under its key, and no two entries have the same bytes.
HashKey_C7 ==
    /\ \A d, e \in map : d.key = e.key => d = e
    /\ op = "get" =>
        /\ res.tag = "some" <=> (\E e \in map : e.key = Constructed(arg))
        /\ \A e \in map : e.key = Constructed(arg) => res = Some(e.val)
    /\ op = "insert" =>
        \E e \in map : e.key = Constructed(arg) /\ e.val = arg.kind

\* C7 witness: a lookup under a key constructed from an array returned the
\* value inserted under a key constructed from a str.
HashKey_C7_Witness ==
    /\ op = "get"
    /\ arg.kind = "bytes"
    /\ res.tag = "some"
    /\ res.val = "str"

\* C8: Display writes exactly 4 characters, the i-th with the code point of
\* the i-th byte; Debug writes the same 4 characters between two single
\* quotes, 6 characters in all.
Format_C8 ==
    /\ op = "display" =>
        /\ res.tag = "ok"
        /\ Len(chars(res.val)) = 4
        /\ \A i \in 1..4 : chars(res.val)[i] = f[i]
    /\ op = "debug" =>
        /\ res.tag = "ok"
        /\ Len(chars(res.val)) = 6
        /\ chars(res.val) = <<39, f[1], f[2], f[3], f[4], 39>>

\* C8 witness: a value that is not valid, with a byte that is not ASCII,
\* has been displayed; the str written is longer than 4 bytes.
Format_C8_Witness ==
    /\ op = "display"
    /\ f = <<33, 128, 33, 33>>
    /\ Len(res.val) = 5

\* C9: construction from a str of 4 bytes or more stores its first 4
\* encoded bytes in order, whatever follows them and wherever the
\* character boundaries are.
FromStrBytes_C9 ==
    (op = "from_str" /\ Len(arg.val) >= 4) =>
        /\ res.tag = "ok"
        /\ \A i \in 1..4 : f[i] = arg.val[i]
        /\ \A s \in Strs :
            (Len(s) >= 4 /\ SubSeq(s, 1, 4) = SubSeq(arg.val, 1, 4)) =>
                from_str(s) = res

\* C9 witness: the str "!!\u{20AC}" (3 characters, 5 bytes) was accepted,
\* its last character cut after the second of its three bytes.
FromStrBytes_C9_Witness ==
    /\ op = "from_str"
    /\ arg.val = <<33, 33, 226, 130, 172>>
    /\ Len(chars(arg.val)) = 3
    /\ f = <<33, 33, 226, 130>>

\* C10: the order of FourCC values is the numeric order of their big-endian
\* u32 views; it is total and transitive; a comparison with a u32 n is the
\* comparison of the u32 view with n; from_u32 stores the most significant
\* byte of n first.
NumericOrder_C10 ==
    /\ op = "cmp_fourcc" =>
        /\ lt(res.val) <=> U32Less(into_u32(f), into_u32(arg.val))
        /\ gt(res.val) <=> U32Less(into_u32(arg.val), into_u32(f))
        /\ (res.val = Equal) <=> (into_u32(f) = into_u32(arg.val))
        /\ Cardinality({ k \in 1..3 : <<lt(res.val), FourCC_eq(f, arg.val),
                                          gt(res.val)>>[k] }) = 1
        /\ lt(res.val) =>
            \A h \in TypeIds :
                lt(FourCC_partial_cmp(arg.val, h)) => lt(FourCC_partial_cmp(f, h))
    /\ op = "eq_fourcc" => (res.val <=> (into_u32(f) = into_u32(arg.val)))
    /\ op = "cmp_u32" =>
        /\ lt(res.val) <=> U32Less(into_u32(f), arg.val)
        /\ gt(res.val) <=> U32Less(arg.val, into_u32(f))
    /\ op = "eq_u32" => (res.val <=> (into_u32(f) = arg.val))
    /\ op = "from_u32" =>
        /\ arg.val.hi = res.val[1] * 256 + res.val[2]
        /\ arg.val.lo = res.val[3] * 256 + res.val[4]

\* C10 witness: "RGBA" has been compared with the u32 1095911234 ("ARGB")
\* and is the greater.
NumericOrder_C10_Witness ==
    /\ op = "cmp_u32"
    /\ f = <<82, 71, 66, 65>>
    /\ arg.val = U32Of(1095911234)
    /\ res.val = Greater

====
